---- MODULE Spec2Model ----
(***************************************************************************)
(* Authentication UI flows of the Vanguard Cargo client application:       *)
(*   - AuthCallback     (OAuth / password-recovery callback page)          *)
(*   - PublicRoute      (keeps authenticated users off the auth pages)     *)
(*   - ReduxAuthGuard   (protects the application routes)                  *)
(* Each component is a state machine over the values its code reads and   *)
(* the effects it issues (navigations, dispatches, timers).                *)
(***************************************************************************)
EXTENDS Integers, Sequences, FiniteSets, TLC

(* JavaScript null / undefined.  No domain below contains it as a real string. *)
null == "null"

(* JavaScript truthiness of a string-or-null value. *)
Truthy(s) == s # null /\ s # ""

VARIABLES
    (* ---- AuthCallback: one run of handleAuthCallback ---- *)
    hash,          \* parsed location.hash: type, access_token, refresh_token, error_description
    pc,            \* position of the async handler (which await it is suspended on)
    error,         \* useState error
    status,        \* useState status
    callbackType,  \* useState callbackType
    session,       \* local `session` of the OAuth branch (TRUE when non-null)
    sessionError,  \* local `sessionError` of the OAuth branch (TRUE when non-null)
    timer,         \* pending setTimeout(() => navigate(to), delay), or NoTimer
    navs,          \* navigate() calls issued so far, in order
    calls,         \* external calls issued so far, in order
    replies,       \* what the awaited calls resolved to (or threw), in order
    initAuth,      \* outcome of dispatch(initializeAuth()).unwrap(): none/pending/fulfilled/rejected
    (* ---- Redux auth store, read by PublicRoute and ReduxAuthGuard ---- *)
    isAuthenticated, isInitialized, isLoading, profile, user,
    (* ---- PublicRoute ---- *)
    prPath,        \* location.pathname
    prSearch,      \* location.search, as its list of key=value parameters
    redirectTo,    \* prop redirectTo
    prView,        \* what the last render returned
    (* ---- ReduxAuthGuard ---- *)
    gMounted,      \* the guard is mounted
    gPath,         \* location.pathname seen by the guard
    gView,         \* what the last render returned
    gNav,          \* the navigate() the guard's last step issued, or NoNav
    gDispatched,   \* the thunks the guard's last step dispatched
    gRedirecting,  \* a navigate() of the guard is issued and not yet applied by the router
    (* ---- authService: one invocation of one operation ---- *)
    svcOp,         \* the operation invoked
    svcPc,         \* position of the async method (which await it is suspended on)
    svcCalls,      \* external calls issued so far, in order
    svcReplies,    \* what the awaited calls resolved to (or threw), in order
    svcResult,     \* what the method returned, or NoResult
    bg,            \* state of each fire-and-forget background call
    bgOrder        \* the background calls that have completed, in order of completion

cbVars == <<hash, pc, error, status, callbackType, session, sessionError,
            timer, navs, calls, replies, initAuth>>
storeVars == <<isAuthenticated, isInitialized, isLoading, profile, user>>
prVars == <<prPath, prSearch, redirectTo, prView>>
gVars == <<gMounted, gPath, gView, gNav, gDispatched, gRedirecting>>
svcVars == <<svcOp, svcPc, svcCalls, svcReplies, svcResult, bg, bgOrder>>
vars == <<cbVars, storeVars, prVars, gVars, svcVars>>

(* The fire-and-forget calls: logAuthEventAsync, updateLastLoginAsync,
   sendLoginWelcomeEmailAsync. *)
BgTasks == {"log", "lastLogin", "email"}

NoResult == [value |-> "none", error |-> "none"]

SvcIdle ==
    /\ svcOp = "none"
    /\ svcPc = "idle"
    /\ svcCalls = <<>>
    /\ svcReplies = <<>>
    /\ svcResult = NoResult
    /\ bg = [t \in BgTasks |-> "idle"]
    /\ bgOrder = <<>>

(***************************************************************************)
(*                              AuthCallback                               *)
(***************************************************************************)

(* Values a hash parameter can take: absent (null), present but empty, present. *)
HashTypes == {null, "recovery", "signup"}
TokenValues == {null, "", "tok"}
ErrorDescriptions == {null, "", "Email link is invalid or has expired"}

Hashes == [type : HashTypes, access_token : TokenValues,
           refresh_token : TokenValues, error_description : ErrorDescriptions]

NoTimer == [to |-> null, delay |-> 0]

ExpiredLinkMsg == "Password reset link has expired or is invalid. Please request a new one."
VerifyFailedMsg == "Failed to verify authentication. Please try again."
NoSessionMsg == "No session found. Redirecting to login..."
GenericFailMsg == "Authentication failed. Please try again."

(* What a thrown value can be: an Error (with its message, possibly empty) or
   something that is not an Error (a rejectWithValue payload, a SerializedError). *)
Thrown == {[isError |-> TRUE, message |-> "Failed to fetch"],
           [isError |-> TRUE, message |-> ""],
           [isError |-> FALSE, message |-> "rejected"]}

(* supabase.auth.setSession resolves to {data: {session}, error}: an error, a
   session, or neither. *)
SetSessionResults == {[session |-> FALSE, error |-> TRUE],
                      [session |-> TRUE, error |-> FALSE],
                      [session |-> FALSE, error |-> FALSE]}

(* supabase.auth.getSession resolves to {data: {session}, error}. *)
GetSessionResults == {[session |-> FALSE, error |-> TRUE],
                      [session |-> TRUE, error |-> FALSE],
                      [session |-> FALSE, error |-> FALSE]}

HasTokens == Truthy(hash.access_token) /\ Truthy(hash.refresh_token)

CbInit ==
    /\ hash \in Hashes
    /\ pc = "start"
    /\ error = null
    /\ status = "Processing..."
    /\ callbackType = "unknown"
    /\ session = FALSE
    /\ sessionError = FALSE
    /\ timer = NoTimer
    /\ navs = <<>>
    /\ calls = <<>>
    /\ replies = <<>>
    /\ initAuth = "none"

(* The handler touches neither the store nor the other components. *)
CbFrame == UNCHANGED <<storeVars, prVars, gVars, svcVars>>

ErrorRedirectDelay == 3000
NoSessionRedirectDelay == 2000

AwaitingCall == {"recovery_setSession", "recovery_getSession", "oauth_getSession",
                 "oauth_setSession", "oauth_initializeAuth"}

(* Mutant of Fail: the error is shown but the redirect is never scheduled. *)
Fail_NoRedirect(msg, to, delay) ==
    /\ error' = msg
    /\ timer' = timer
    /\ pc' = "done"

(* setError(msg); setTimeout(() => navigate(to), delay); return; *)
Fail(msg, to, delay) ==
    /\ error' = msg
    /\ timer' = [to |-> to, delay |-> delay]
    /\ pc' = "done"

(* Lines 59-65 then 67-74 / 96: the recovery branch up to its first await. *)
EnterRecovery ==
    /\ callbackType' = "recovery"
    /\ status' = "Processing password reset..."
    /\ IF HasTokens
       THEN /\ calls' = Append(calls, "setSession")
            /\ pc' = "recovery_setSession"
       ELSE /\ calls' = Append(calls, "getSession")
            /\ pc' = "recovery_getSession"
    /\ UNCHANGED <<error, timer>>

(* Lines 113-118: the default (OAuth / email verification) branch up to getSession. *)
EnterOAuth ==
    /\ callbackType' = "oauth"
    /\ status' = "Verifying your credentials..."
    /\ calls' = Append(calls, "getSession")
    /\ pc' = "oauth_getSession"
    /\ UNCHANGED <<error, timer>>

(* handleAuthCallback from its entry to its first await or return. *)
Start ==
    /\ pc = "start"
    /\ CbFrame
    /\ UNCHANGED replies
    /\ IF Truthy(hash.error_description)
       THEN /\ Fail(hash.error_description, "/login", ErrorRedirectDelay)
            /\ UNCHANGED <<callbackType, status, calls>>
       ELSE IF hash.type = "recovery"
       THEN EnterRecovery
       ELSE EnterOAuth
    /\ UNCHANGED <<hash, session, sessionError, navs, initAuth>>

(* Mutant of RecoverySetSessionReturn: a setSession error falls through to
   the getSession fallback. *)
RecoverySetSessionReturn_FallThrough(r) ==
    /\ pc = "recovery_setSession"
    /\ CbFrame
    /\ replies' = Append(replies, [call |-> "setSession", session |-> r.session, error |-> r.error, threw |-> FALSE])
    /\ IF r.session
       THEN /\ status' = "Redirecting to password reset..."
            /\ pc' = "recovery_delay"
            /\ UNCHANGED <<error, timer, calls>>
       ELSE /\ calls' = Append(calls, "getSession")
            /\ pc' = "recovery_getSession"
            /\ UNCHANGED <<error, timer, status>>
    /\ UNCHANGED <<hash, callbackType, session, sessionError, navs, initAuth>>

(* Lines 71-96: setSession of the recovery branch has resolved to r. *)
RecoverySetSessionReturn(r) ==
    /\ pc = "recovery_setSession"
    /\ CbFrame
    /\ replies' = Append(replies, [call |-> "setSession", session |-> r.session, error |-> r.error, threw |-> FALSE])
    /\ IF r.error
       THEN /\ Fail(ExpiredLinkMsg, "/forgot-password", ErrorRedirectDelay)
            /\ UNCHANGED <<status, calls>>
       ELSE IF r.session
       THEN /\ status' = "Redirecting to password reset..."
            /\ pc' = "recovery_delay"
            /\ UNCHANGED <<error, timer, calls>>
       ELSE /\ calls' = Append(calls, "getSession")
            /\ pc' = "recovery_getSession"
            /\ UNCHANGED <<error, timer, status>>
    /\ UNCHANGED <<hash, callbackType, session, sessionError, navs, initAuth>>

(* Lines 96-110: getSession of the recovery branch has resolved to r; only
   data.session is read. *)
RecoveryGetSessionReturn(r) ==
    /\ pc = "recovery_getSession"
    /\ CbFrame
    /\ replies' = Append(replies, [call |-> "getSession", session |-> r.session, error |-> r.error, threw |-> FALSE])
    /\ IF r.session
       THEN /\ status' = "Redirecting to password reset..."
            /\ pc' = "recovery_delay"
            /\ UNCHANGED <<error, timer>>
       ELSE /\ Fail(ExpiredLinkMsg, "/forgot-password", ErrorRedirectDelay)
            /\ UNCHANGED status
    /\ UNCHANGED <<hash, callbackType, session, sessionError, navs, calls, initAuth>>

(* Mutant of RecoveryDelayElapsed: the step query is lost from the target. *)
RecoveryDelayElapsed_NoStep ==
    /\ pc = "recovery_delay"
    /\ CbFrame
    /\ navs' = Append(navs, [to |-> "/forgot-password", replace |-> TRUE])
    /\ pc' = "done"
    /\ UNCHANGED <<hash, error, status, callbackType, session, sessionError,
                   timer, calls, replies, initAuth>>

(* Lines 88-90 and 101-103: the 500 ms pause is over. *)
RecoveryDelayElapsed ==
    /\ pc = "recovery_delay"
    /\ CbFrame
    /\ UNCHANGED replies
    /\ navs' = Append(navs, [to |-> "/forgot-password?step=3", replace |-> TRUE])
    /\ pc' = "done"
    /\ UNCHANGED <<hash, error, status, callbackType, session, sessionError,
                   timer, calls, initAuth>>

(* Mutant of OAuthChecks: the missing-session check is left out. *)
OAuthChecks_NoSessionCheck(s, e) ==
    IF e
    THEN /\ Fail(VerifyFailedMsg, "/login", ErrorRedirectDelay)
         /\ UNCHANGED <<status, calls, initAuth>>
    ELSE /\ status' = "Loading your profile..."
         /\ calls' = Append(calls, "initializeAuth")
         /\ initAuth' = "pending"
         /\ pc' = "oauth_initializeAuth"
         /\ UNCHANGED <<error, timer>>

(* Lines 136-158: the checks on (session, sessionError) and the dispatch of
   initializeAuth. *)
OAuthChecks(s, e) ==
    IF e
    THEN /\ Fail(VerifyFailedMsg, "/login", ErrorRedirectDelay)
         /\ UNCHANGED <<status, calls, initAuth>>
    ELSE IF ~s
    THEN /\ Fail(NoSessionMsg, "/login", NoSessionRedirectDelay)
         /\ UNCHANGED <<status, calls, initAuth>>
    ELSE /\ status' = "Loading your profile..."
         /\ calls' = Append(calls, "initializeAuth")
         /\ initAuth' = "pending"
         /\ pc' = "oauth_initializeAuth"
         /\ UNCHANGED <<error, timer>>

(* Lines 118-126: getSession of the OAuth branch has resolved to r. *)
OAuthGetSessionReturn(r) ==
    /\ pc = "oauth_getSession"
    /\ CbFrame
    /\ replies' = Append(replies, [call |-> "getSession", session |-> r.session, error |-> r.error, threw |-> FALSE])
    /\ session' = r.session
    /\ sessionError' = r.error
    /\ IF ~r.session /\ HasTokens
       THEN /\ calls' = Append(calls, "setSession")
            /\ pc' = "oauth_setSession"
            /\ UNCHANGED <<error, timer, status, initAuth>>
       ELSE OAuthChecks(r.session, r.error)
    /\ UNCHANGED <<hash, callbackType, navs>>

(* Lines 128-133 and on: setSession of the OAuth branch has resolved to r. *)
OAuthSetSessionReturn(r) ==
    /\ pc = "oauth_setSession"
    /\ CbFrame
    /\ replies' = Append(replies, [call |-> "setSession", session |-> r.session, error |-> r.error, threw |-> FALSE])
    /\ IF ~r.error /\ r.session
       THEN /\ session' = TRUE
            /\ sessionError' = FALSE
       ELSE /\ session' = session
            /\ sessionError' = r.error
    /\ OAuthChecks(session', sessionError')
    /\ UNCHANGED <<hash, callbackType, navs>>

(* Mutant of InitializeAuthFulfilled: the dashboard is navigated to at once
   and again after the pause. *)
InitializeAuthFulfilled_NavigatesTwice ==
    /\ pc = "oauth_initializeAuth"
    /\ CbFrame
    /\ replies' = Append(replies, [call |-> "initializeAuth", session |-> FALSE, error |-> FALSE, threw |-> FALSE])
    /\ initAuth' = "fulfilled"
    /\ status' = "Success! Redirecting to dashboard..."
    /\ navs' = Append(navs, [to |-> "/dashboard", replace |-> TRUE])
    /\ pc' = "oauth_delay"
    /\ UNCHANGED <<hash, error, callbackType, session, sessionError, timer, calls>>

(* Lines 158-163: dispatch(initializeAuth()).unwrap() has resolved. *)
InitializeAuthFulfilled ==
    /\ pc = "oauth_initializeAuth"
    /\ CbFrame
    /\ replies' = Append(replies, [call |-> "initializeAuth", session |-> FALSE, error |-> FALSE, threw |-> FALSE])
    /\ initAuth' = "fulfilled"
    /\ status' = "Success! Redirecting to dashboard..."
    /\ pc' = "oauth_delay"
    /\ UNCHANGED <<hash, error, callbackType, session, sessionError, timer, navs, calls>>

(* Lines 163-166: the 500 ms pause is over. *)
OAuthDelayElapsed ==
    /\ pc = "oauth_delay"
    /\ CbFrame
    /\ UNCHANGED replies
    /\ navs' = Append(navs, [to |-> "/dashboard", replace |-> TRUE])
    /\ pc' = "done"
    /\ UNCHANGED <<hash, error, status, callbackType, session, sessionError,
                   timer, calls, initAuth>>

(* Lines 168-176: an awaited call threw (or initializeAuth rejected) with e. *)
Catch(e) ==
    /\ pc \in AwaitingCall
    /\ CbFrame
    /\ replies' = Append(replies, [call |-> calls[Len(calls)], session |-> FALSE, error |-> FALSE, threw |-> TRUE])
    /\ Fail(IF e.isError THEN e.message ELSE GenericFailMsg, "/login", ErrorRedirectDelay)
    /\ initAuth' = IF pc = "oauth_initializeAuth" THEN "rejected" ELSE initAuth
    /\ UNCHANGED <<hash, status, callbackType, session, sessionError, navs, calls>>

(* The pending setTimeout callback runs: navigate(to). *)
TimerFires ==
    /\ timer # NoTimer
    /\ CbFrame
    /\ navs' = Append(navs, [to |-> timer.to, replace |-> FALSE])
    /\ timer' = NoTimer
    /\ UNCHANGED <<hash, pc, error, status, callbackType, session, sessionError,
                   calls, replies, initAuth>>

CbNext ==
    \/ Start
    \/ \E r \in SetSessionResults : RecoverySetSessionReturn(r)
    \/ \E r \in GetSessionResults : RecoveryGetSessionReturn(r)
    \/ RecoveryDelayElapsed
    \/ \E r \in GetSessionResults : OAuthGetSessionReturn(r)
    \/ \E r \in SetSessionResults : OAuthSetSessionReturn(r)
    \/ InitializeAuthFulfilled
    \/ OAuthDelayElapsed
    \/ \E e \in Thrown : Catch(e)
    \/ TimerFires

(* ------------------------- AuthCallback: claims ------------------------- *)

Range(q) == {q[i] : i \in 1..Len(q)}

Step3Nav == [to |-> "/forgot-password?step=3", replace |-> TRUE]
DashboardNav == [to |-> "/dashboard", replace |-> TRUE]

(* The recovery callback whose token exchange succeeded: type=recovery, no
   error_description, both tokens, and setSession resolved to a session. *)
RecoveryExchanged ==
    /\ hash.type = "recovery"
    /\ ~Truthy(hash.error_description)
    /\ HasTokens
    /\ Len(replies) >= 1
    /\ replies[1] = [call |-> "setSession", session |-> TRUE, error |-> FALSE, threw |-> FALSE]

(* C1: after a successful recovery token exchange the run navigates to
   /forgot-password?step=3 with replace and nowhere else: no other navigate is
   issued or scheduled, initializeAuth is never dispatched, and the finished
   run has issued exactly that one navigation. *)
C1_RecoveryNavigatesToStep3 ==
    RecoveryExchanged =>
        /\ "initializeAuth" \notin Range(calls)
        /\ timer = NoTimer
        /\ Range(navs) \subseteq {Step3Nav}
        /\ Len(navs) <= 1
        /\ (pc = "done" => navs = <<Step3Nav>>)

C1_Witness == RecoveryExchanged /\ pc = "done" /\ navs = <<Step3Nav>>

NonRecovery == hash.type # "recovery" /\ ~Truthy(hash.error_description)

(* Some getSession / setSession of the run resolved to a session. *)
SessionEstablished ==
    \E i \in 1..Len(replies) :
        replies[i].call \in {"getSession", "setSession"} /\ replies[i].session

InitializeAuthSucceeded ==
    /\ initAuth = "fulfilled"
    /\ \E i \in 1..Len(replies) : replies[i].call = "initializeAuth" /\ ~replies[i].threw

(* C2: in a non-recovery callback without error_description, an established
   session always has initializeAuth dispatched, and a finished run whose
   initializeAuth succeeded has navigated to /dashboard; in every run,
   /dashboard is navigated to only with a session and after initializeAuth
   has completed successfully. *)
C2_DashboardOnlyAfterInitializeAuth ==
    /\ NonRecovery =>
          /\ (SessionEstablished => "initializeAuth" \in Range(calls))
          /\ (pc = "done" /\ InitializeAuthSucceeded => navs = <<DashboardNav>>)
    /\ (\E i \in 1..Len(navs) : navs[i].to = "/dashboard") =>
          /\ SessionEstablished
          /\ session
          /\ InitializeAuthSucceeded

C2_Witness ==
    /\ NonRecovery
    /\ pc = "done"
    /\ navs = <<DashboardNav>>
    /\ "setSession" \in Range(calls)

(* A failure path has been taken: error_description in the hash, a thrown
   exception, a setSession error, no session for the recovery, or a session
   error / missing session once the OAuth branch has resolved its session. *)
FailurePathTaken ==
    \/ Truthy(hash.error_description) /\ pc # "start"
    \/ \E i \in 1..Len(replies) : replies[i].threw
    \/ \E i \in 1..Len(replies) : replies[i].call = "setSession" /\ replies[i].error
    \/ /\ callbackType = "recovery"
       /\ Len(replies) >= 1
       /\ replies[Len(replies)].call = "getSession"
       /\ ~replies[Len(replies)].session
    \/ /\ callbackType = "oauth"
       /\ pc \notin {"oauth_getSession", "oauth_setSession"}
       /\ (sessionError \/ ~session)

ErrorRedirectTargets == {"/login", "/forgot-password"}

(* C3: every failure path sets a non-null error and schedules a redirect,
   after one of the fixed delays, to /login or /forgot-password; a run with an
   error set navigates nowhere else. *)
C3_FailureSetsErrorAndRedirects ==
    /\ FailurePathTaken => error # null
    /\ error # null =>
          /\ \/ /\ timer # NoTimer
                /\ timer.to \in ErrorRedirectTargets
                /\ timer.delay \in {ErrorRedirectDelay, NoSessionRedirectDelay}
                /\ navs = <<>>
             \/ /\ timer = NoTimer
                /\ Len(navs) = 1
                /\ navs[1].to \in ErrorRedirectTargets
          /\ \A i \in 1..Len(navs) :
                navs[i].to \notin {"/dashboard", "/forgot-password?step=3"}

C3_Witness ==
    /\ FailurePathTaken
    /\ error = ExpiredLinkMsg
    /\ timer = NoTimer
    /\ navs = <<[to |-> "/forgot-password", replace |-> FALSE]>>

(***************************************************************************)
(*                    Redux auth store (authSlice state)                   *)
(***************************************************************************)

(* Longest phone text considered. *)
MaxPhoneLen == 2

(* Characters of a phone text: a blank or a non-blank. *)
PhoneChars == {" ", "7"}

RECURSIVE SeqsUpTo(_, _)
SeqsUpTo(S, n) ==
    IF n = 0 THEN {<<>>}
    ELSE LET shorter == SeqsUpTo(S, n - 1)
         IN  shorter \cup {Append(t, c) : t \in shorter, c \in S}

(* profile.phone: undefined/null (set = FALSE) or a string. *)
Phones == {[set |-> FALSE, text |-> <<>>]}
          \cup {[set |-> TRUE, text |-> t] : t \in SeqsUpTo(PhoneChars, MaxPhoneLen)}

(* AuthUser.status *)
Statuses == {"pending_verification", "active", "suspended"}

NoProfile == [exists |-> FALSE]
Profiles == {NoProfile}
            \cup {[exists |-> TRUE, status |-> st, phone |-> ph] : st \in Statuses, ph \in Phones}

(* user: null, or a user object with its id (possibly empty). *)
NoUser == [exists |-> FALSE]
Users == {NoUser, [exists |-> TRUE, id |-> ""], [exists |-> TRUE, id |-> "u1"]}

StoreInit ==
    /\ isAuthenticated = FALSE
    /\ isInitialized = FALSE
    /\ isLoading \in BOOLEAN
    /\ profile = NoProfile
    /\ user = NoUser

PrIdle ==
    /\ prPath = "/login"
    /\ prSearch = <<>>
    /\ redirectTo = "/app"
    /\ prView = [kind |-> "unmounted", to |-> null, replace |-> FALSE]

NoNav == [to |-> null, replace |-> FALSE, from |-> null]

GIdle ==
    /\ gMounted = FALSE
    /\ gPath = "/app"
    /\ gView = "unmounted"
    /\ gNav = NoNav
    /\ gDispatched = {}
    /\ gRedirecting = FALSE

CbIdle ==
    /\ hash = [type |-> null, access_token |-> null, refresh_token |-> null,
               error_description |-> null]
    /\ pc = "start"
    /\ error = null
    /\ status = "Processing..."
    /\ callbackType = "unknown"
    /\ session = FALSE
    /\ sessionError = FALSE
    /\ timer = NoTimer
    /\ navs = <<>>
    /\ calls = <<>>
    /\ replies = <<>>
    /\ initAuth = "none"

(* One run of the AuthCallback handler. *)
CallbackInit == CbInit /\ StoreInit /\ isLoading = FALSE /\ PrIdle /\ GIdle /\ SvcIdle
CallbackSpec == CallbackInit /\ [][CbNext]_vars

(***************************************************************************)
(*                               PublicRoute                               *)
(***************************************************************************)

(* Most parameters in a query string considered. *)
MaxParams == 2

QueryParams == {[key |-> "step", value |-> "3"], [key |-> "step", value |-> "1"],
                [key |-> "token", value |-> "3"]}
Searches == SeqsUpTo(QueryParams, MaxParams)

(* URLSearchParams.get: the value of the first parameter named key, or null. *)
RECURSIVE SearchGet(_, _)
SearchGet(search, key) ==
    IF search = <<>> THEN null
    ELSE IF Head(search).key = key THEN Head(search).value
    ELSE SearchGet(Tail(search), key)

(* Paths served inside a PublicRoute. *)
PublicPaths == {"/login", "/register", "/forgot-password", "/verify-email",
                "/resend-verification"}
RedirectTos == {"/app", "/dashboard"}

(* profile?.status *)
ProfileStatus(p) == IF p.exists THEN p.status ELSE null

IsPasswordRecoveryFlow(path, search) ==
    path = "/forgot-password" /\ SearchGet(search, "step") = "3"

PagesWithInlineLoaders == {"/login", "/register"}
VerificationPages == {"/verify-email", "/resend-verification"}

LoadingView == [kind |-> "loading", to |-> null, replace |-> FALSE]
ChildrenView == [kind |-> "children", to |-> null, replace |-> FALSE]
NavigateView(to) == [kind |-> "navigate", to |-> to, replace |-> TRUE]
UnmountedView == [kind |-> "unmounted", to |-> null, replace |-> FALSE]

(* Mutant of PublicRouteRender: the redirect of an active user ignores the
   redirectTo prop. *)
PublicRouteRender_FixedTarget(auth, loading, prof, path, search, rto) ==
    IF loading /\ path \notin PagesWithInlineLoaders THEN LoadingView
    ELSE IF auth /\ ProfileStatus(prof) = "active"
    THEN IF IsPasswordRecoveryFlow(path, search) THEN ChildrenView
         ELSE NavigateView("/app")
    ELSE IF auth /\ ProfileStatus(prof) = "pending_verification"
    THEN IF path \in VerificationPages THEN ChildrenView
         ELSE NavigateView("/verify-email")
    ELSE ChildrenView

(* Mutant of PublicRouteRender: a pending user is sent to redirectTo. *)
PublicRouteRender_PendingToApp(auth, loading, prof, path, search, rto) ==
    IF loading /\ path \notin PagesWithInlineLoaders THEN LoadingView
    ELSE IF auth /\ ProfileStatus(prof) = "active"
    THEN IF IsPasswordRecoveryFlow(path, search) THEN ChildrenView
         ELSE NavigateView(rto)
    ELSE IF auth /\ ProfileStatus(prof) = "pending_verification"
    THEN IF path \in VerificationPages THEN ChildrenView
         ELSE NavigateView(rto)
    ELSE ChildrenView

(* What PublicRoute returns. *)
PublicRouteRender(auth, loading, prof, path, search, rto) ==
    IF loading /\ path \notin PagesWithInlineLoaders THEN LoadingView
    ELSE IF auth /\ ProfileStatus(prof) = "active"
    THEN IF IsPasswordRecoveryFlow(path, search) THEN ChildrenView
         ELSE NavigateView(rto)
    ELSE IF auth /\ ProfileStatus(prof) = "pending_verification"
    THEN IF path \in VerificationPages THEN ChildrenView
         ELSE NavigateView("/verify-email")
    ELSE ChildrenView

(* PublicRoute reads profile?.status only: the profiles told apart here. *)
PrProfiles == {p \in Profiles : p.exists => ~p.phone.set}

PrFrame == UNCHANGED <<cbVars, gVars, svcVars, isInitialized, user, redirectTo>>

(* The store changes (any auth state the slice can hold) and the route re-renders. *)
PrStoreChange(a, l, p) ==
    /\ prView.kind # "unmounted"
    /\ <<a, l, p>> # <<isAuthenticated, isLoading, profile>>
    /\ isAuthenticated' = a
    /\ isLoading' = l
    /\ profile' = p
    /\ prView' = PublicRouteRender(a, l, p, prPath, prSearch, redirectTo)
    /\ UNCHANGED <<prPath, prSearch>>
    /\ PrFrame

(* The browser goes to a public page; the route there renders. *)
PrLocationChange(path, search) ==
    /\ <<path, search>> # <<prPath, prSearch>> \/ prView.kind = "unmounted"
    /\ prPath' = path
    /\ prSearch' = search
    /\ prView' = PublicRouteRender(isAuthenticated, isLoading, profile, path, search, redirectTo)
    /\ UNCHANGED <<isAuthenticated, isLoading, profile>>
    /\ PrFrame

(* <Navigate to replace /> takes effect: the location becomes its target; a
   target that is a public page renders its own PublicRoute. *)
PrFollowNavigate ==
    /\ prView.kind = "navigate"
    /\ prPath' = prView.to
    /\ prSearch' = <<>>
    /\ prView' = IF prView.to \in PublicPaths
                 THEN PublicRouteRender(isAuthenticated, isLoading, profile, prView.to,
                                        <<>>, redirectTo)
                 ELSE UnmountedView
    /\ UNCHANGED <<isAuthenticated, isLoading, profile>>
    /\ PrFrame

PrNext ==
    \/ \E a \in BOOLEAN, l \in BOOLEAN, p \in PrProfiles : PrStoreChange(a, l, p)
    \/ \E path \in PublicPaths, search \in Searches : PrLocationChange(path, search)
    \/ PrFollowNavigate

PublicRouteInit ==
    /\ CbIdle
    /\ SvcIdle
    /\ GIdle
    /\ StoreInit
    /\ prPath \in PublicPaths
    /\ prSearch \in Searches
    /\ redirectTo \in RedirectTos
    /\ prView = PublicRouteRender(isAuthenticated, isLoading, profile, prPath, prSearch,
                                  redirectTo)

PublicRouteSpec == PublicRouteInit /\ [][PrNext]_vars

(* -------------------------- PublicRoute: claims -------------------------- *)

PrMounted == prView.kind # "unmounted"
PrRecovery == IsPasswordRecoveryFlow(prPath, prSearch)

(* C4 as stated: once loading has finished, every authenticated user outside
   the password-recovery exception is redirected to redirectTo and sees no
   children, whatever the profile. *)
C4_AsStated ==
    (PrMounted /\ isAuthenticated /\ ~isLoading /\ ~PrRecovery) =>
        prView = NavigateView(redirectTo)

(* C4 (amended): once loading has finished, an authenticated user whose
   profile status is 'active' and who is outside the password-recovery
   exception is redirected to redirectTo (replace) and sees no children. *)
C4_ActiveUserRedirected ==
    (PrMounted /\ isAuthenticated /\ ProfileStatus(profile) = "active"
       /\ ~isLoading /\ ~PrRecovery) =>
        prView = NavigateView(redirectTo)

C4_Witness ==
    /\ isAuthenticated /\ ProfileStatus(profile) = "active" /\ ~isLoading
    /\ prPath = "/forgot-password" /\ SearchGet(prSearch, "step") = "1"
    /\ redirectTo = "/dashboard"
    /\ prView = NavigateView("/dashboard")

(* C5: once loading has finished, an authenticated user on /forgot-password
   with step=3 sees the children and is not redirected; with any other path
   or step value an authenticated active user gets no such access. *)
C5_RecoveryException ==
    /\ (PrMounted /\ isAuthenticated /\ ~isLoading /\ PrRecovery) =>
          prView = ChildrenView
    /\ (PrMounted /\ isAuthenticated /\ ProfileStatus(profile) = "active"
          /\ ~isLoading /\ ~PrRecovery) =>
          prView.kind # "children"

PrPending == PrMounted /\ isAuthenticated /\ ProfileStatus(profile) = "pending_verification"

(* C6 as stated: a pending_verification user sees the children only on the
   verification pages and is redirected to /verify-email on every other
   public path, never to redirectTo. *)
C6_AsStated ==
    PrPending =>
        /\ (prView.kind = "children" => prPath \in VerificationPages)
        /\ (prPath \notin VerificationPages => prView = NavigateView("/verify-email"))

(* C6 (amended): a pending_verification user sees the children only on the
   verification pages; on every other public path, unless the loading screen
   is shown (isLoading on a page other than /login and /register), they are
   redirected to /verify-email (replace), never to redirectTo. *)
C6_PendingUserToVerifyEmail ==
    PrPending =>
        /\ (prView.kind = "children" => prPath \in VerificationPages)
        /\ (prPath \notin VerificationPages /\ prView.kind # "loading" =>
               prView = NavigateView("/verify-email"))
        /\ (prView.kind = "loading" => isLoading /\ prPath \notin PagesWithInlineLoaders)

C6_Witness ==
    /\ PrPending
    /\ prPath = "/forgot-password"
    /\ PrRecovery
    /\ prView = NavigateView("/verify-email")

(***************************************************************************)
(*                              ReduxAuthGuard                             *)
(***************************************************************************)

(* Paths served inside the guard. *)
ProtectedPaths == {"/app", "/app/shipments"}

(* String.prototype.trim on a phone text: blanks removed at both ends. *)
RECURSIVE TrimStart(_)
TrimStart(t) ==
    IF t # <<>> /\ Head(t) = " " THEN TrimStart(Tail(t)) ELSE t

RECURSIVE TrimEnd(_)
TrimEnd(t) ==
    IF t # <<>> /\ t[Len(t)] = " " THEN TrimEnd(SubSeq(t, 1, Len(t) - 1)) ELSE t

Trim(t) == TrimEnd(TrimStart(t))

(* profile?.phone && profile.phone.trim().length > 0 *)
HasPhone(prof) ==
    /\ prof.exists
    /\ prof.phone.set
    /\ prof.phone.text # <<>>
    /\ Len(Trim(prof.phone.text)) > 0

(* user?.id, as a condition *)
HasUserId(usr) == usr.exists /\ usr.id # ""

(* Mutant of GuardRender: the unauthenticated return is left out. *)
GuardRender_NoAuthReturn(init, auth, prof, usr) ==
    IF ~init THEN "spinner"
    ELSE IF ~HasPhone(prof) /\ HasUserId(usr) THEN "children+modal"
    ELSE "children"

(* What ReduxAuthGuard returns: the spinner, null, or the children with or
   without the PhoneNumberCollectionModal. *)
GuardRender(init, auth, prof, usr) ==
    IF ~init THEN "spinner"
    ELSE IF ~auth THEN "null"
    ELSE IF ~HasPhone(prof) /\ HasUserId(usr) THEN "children+modal"
    ELSE "children"

(* The effect with deps [dispatch, isInitialized]: what it dispatches. *)
InitEffect(init) == IF ~init THEN {"initializeAuth"} ELSE {}

LoginNav(path) == [to |-> "/login", replace |-> TRUE, from |-> path]

(* Mutant of RedirectEffect: the redirect does not wait for initialization. *)
RedirectEffect_NoWait(init, auth, path) ==
    IF ~auth
    THEN [nav |-> LoginNav(path), dispatched |-> {}]
    ELSE [nav |-> NoNav, dispatched |-> {}]

(* Mutant of RedirectEffect: logout is dispatched along with the redirect. *)
RedirectEffect_WithLogout(init, auth, path) ==
    IF ~init THEN [nav |-> NoNav, dispatched |-> {}]
    ELSE IF ~auth
    THEN [nav |-> LoginNav(path), dispatched |-> {"logout"}]
    ELSE [nav |-> NoNav, dispatched |-> {}]

(* The effect with deps [isAuthenticated, isInitialized, navigate, location]:
   the navigate it issues and what it dispatches. *)
RedirectEffect(init, auth, path) ==
    IF ~init THEN [nav |-> NoNav, dispatched |-> {}]
    ELSE IF ~auth
    THEN [nav |-> LoginNav(path), dispatched |-> {}]
    ELSE [nav |-> NoNav, dispatched |-> {}]

GFrame == UNCHANGED <<cbVars, prVars, svcVars, isLoading>>

(* A render of the guard with the given values, followed by the effects whose
   dependencies changed (runInit, runRedirect). *)
GuardCommit(init, auth, prof, usr, path, runInit, runRedirect) ==
    LET re == IF runRedirect THEN RedirectEffect(init, auth, path)
              ELSE [nav |-> NoNav, dispatched |-> {}]
        ie == IF runInit THEN InitEffect(init) ELSE {}
    IN  /\ gView' = GuardRender(init, auth, prof, usr)
        /\ gNav' = re.nav
        /\ gDispatched' = ie \cup re.dispatched
        /\ gRedirecting' = (gRedirecting \/ re.nav # NoNav)

(* A protected route is entered: the guard mounts, renders and runs its effects. *)
GMount(path) ==
    /\ ~gMounted
    /\ gMounted' = TRUE
    /\ gPath' = path
    /\ GuardCommit(isInitialized, isAuthenticated, profile, user, path, TRUE, TRUE)
    /\ UNCHANGED <<isAuthenticated, isInitialized, profile, user>>
    /\ GFrame

(* The store changes (any auth state the slice can hold); the mounted guard
   re-renders and the effects whose dependencies changed run. *)
GStoreChange(i, a, p, u) ==
    /\ gMounted
    /\ <<i, a, p, u>> # <<isInitialized, isAuthenticated, profile, user>>
    /\ isInitialized' = i
    /\ isAuthenticated' = a
    /\ profile' = p
    /\ user' = u
    /\ GuardCommit(i, a, p, u, gPath, i # isInitialized,
                   i # isInitialized \/ a # isAuthenticated)
    /\ UNCHANGED <<gMounted, gPath>>
    /\ GFrame

(* The location changes to another protected path: the guard re-renders and
   the redirect effect (deps: location) runs again. *)
GLocationChange(path) ==
    /\ gMounted
    /\ ~gRedirecting
    /\ path # gPath
    /\ gPath' = path
    /\ GuardCommit(isInitialized, isAuthenticated, profile, user, path, FALSE, TRUE)
    /\ UNCHANGED <<gMounted, isAuthenticated, isInitialized, profile, user>>
    /\ GFrame

(* The router applies the guard's navigate('/login'): the protected route,
   and the guard with it, unmounts. *)
GRouterApplies ==
    /\ gMounted
    /\ gRedirecting
    /\ gMounted' = FALSE
    /\ gView' = "unmounted"
    /\ gNav' = NoNav
    /\ gDispatched' = {}
    /\ gRedirecting' = FALSE
    /\ UNCHANGED <<gPath, isAuthenticated, isInitialized, profile, user>>
    /\ GFrame

(* While no guard is mounted the store keeps changing (sign-in on the login page). *)
GStoreChangeUnmounted(i, a, p, u) ==
    /\ ~gMounted
    /\ <<i, a, p, u>> # <<isInitialized, isAuthenticated, profile, user>>
    /\ isInitialized' = i
    /\ isAuthenticated' = a
    /\ profile' = p
    /\ user' = u
    /\ UNCHANGED gVars
    /\ GFrame

GNext ==
    \/ \E path \in ProtectedPaths : GMount(path)
    \/ \E i \in BOOLEAN, a \in BOOLEAN, p \in Profiles, u \in Users : GStoreChange(i, a, p, u)
    \/ \E path \in ProtectedPaths : GLocationChange(path)
    \/ GRouterApplies
    \/ \E i \in BOOLEAN, a \in BOOLEAN, p \in Profiles, u \in Users :
          GStoreChangeUnmounted(i, a, p, u)

GuardInit == CbIdle /\ PrIdle /\ StoreInit /\ isLoading = FALSE /\ GIdle /\ SvcIdle

GuardSpec == GuardInit /\ [][GNext]_vars

(* ------------------------- ReduxAuthGuard: claims ------------------------ *)

ChildrenRendered == gView \in {"children", "children+modal"}
ModalShown == gView = "children+modal"

(* C7: whenever the guard renders its children, isInitialized and
   isAuthenticated both hold. *)
C7_NoFlashOfProtectedContent ==
    ChildrenRendered => (gMounted /\ isInitialized /\ isAuthenticated)

C7_Witness == ChildrenRendered /\ gMounted /\ ~HasPhone(profile)

(* The step brings the mounted guard to "initialized and not authenticated",
   by mounting, by a change of isInitialized or isAuthenticated, or by a
   change of location. *)
EntersUnauthenticated ==
    /\ gMounted' /\ isInitialized' /\ ~isAuthenticated'
    /\ (~gMounted \/ ~isInitialized \/ isAuthenticated \/ gPath' # gPath)

(* C8: every step that brings the mounted guard to "initialized and not
   authenticated" issues navigate('/login', {replace, state.from = pathname});
   a navigate is issued only to /login, only when initialized and not
   authenticated; initializeAuth is dispatched only while isInitialized is
   false. *)
C8_RedirectAfterInitialization ==
    /\ [][EntersUnauthenticated => gNav' = LoginNav(gPath')]_vars
    /\ [](gNav # NoNav =>
            /\ gMounted /\ isInitialized /\ ~isAuthenticated
            /\ gNav = LoginNav(gPath)
            /\ gRedirecting)
    /\ []("initializeAuth" \in gDispatched => gMounted /\ ~isInitialized)

C8_Witness ==
    /\ gMounted /\ isInitialized /\ ~isAuthenticated
    /\ gNav = LoginNav("/app/shipments")

(* C9 as stated: the redirect of an unauthenticated user comes with a logout. *)
C9_AsStated == gNav # NoNav => "logout" \in gDispatched

(* C9 (amended): when initialization completes and the user is not
   authenticated the guard only redirects to /login; it never dispatches a
   logout. *)
C9_RedirectWithoutLogout ==
    /\ "logout" \notin gDispatched
    /\ (gMounted /\ isInitialized /\ ~isAuthenticated) => gRedirecting

C9_Witness ==
    /\ gMounted /\ isInitialized /\ ~isAuthenticated
    /\ gNav = LoginNav("/app")
    /\ gDispatched = {}

(* profile's phone is missing, empty or whitespace-only *)
PhoneMissing ==
    \/ ~profile.exists
    \/ ~profile.phone.set
    \/ \A k \in 1..Len(profile.phone.text) : profile.phone.text[k] = " "

(* C10: whenever the guard renders the protected content, the modal is shown
   if and only if the profile's phone is missing, empty or whitespace-only. *)
C10_ModalIffPhoneMissing ==
    ChildrenRendered => (ModalShown <=> PhoneMissing)

(***************************************************************************)
(*                               authService                               *)
(***************************************************************************)

Operations == {"signUp", "signIn", "handleOAuthSignIn", "signOut", "resetPassword",
               "updatePassword", "changePassword"}

(* How each awaited call can end.  "throw" is a rejected promise. *)
AuthUserOutcomes == {"error", "noUser", "user", "throw"}      \* signUp, signInWithPassword
GetUserOutcomes == {"user", "userNoEmail", "noUser", "throw"} \* getUser
PlainOutcomes == {"error", "ok", "throw"}                     \* signOut, updateUser, resetPasswordForEmail
RpcOutcomes == {"rpcError", "notSuccess", "success", "throw"} \* rpc create_user_profile_secure
SelectOutcomes == {"found", "noData", "error", "throw"}       \* from('users').select
BgOutcomes == {"ok", "failed"}                                \* a background call

SvcFrame == UNCHANGED <<cbVars, storeVars, prVars, gVars>>

Reply(call, outcome) == [call |-> call, outcome |-> outcome]

(* return { ..., error } *)
Return(value, err) ==
    /\ svcResult' = [value |-> value, error |-> err]
    /\ svcPc' = "returned"

(* The next awaited call is issued. *)
Await(call, at) ==
    /\ svcCalls' = Append(svcCalls, call)
    /\ svcPc' = at
    /\ UNCHANGED svcResult

(* The name of the external call each background task issues. *)
BgCall(t) ==
    CASE t = "log" -> "rpc:log_auth_event"
      [] t = "lastLogin" -> "rpc:update_user_last_login"
      [] t = "email" -> "emailService.sendLoginWelcomeEmail"

(* logAuthEventAsync / updateLastLoginAsync / sendLoginWelcomeEmailAsync are
   called, in the order of `tasks`: each issues its call and is left running. *)
FireAndForget(tasks) ==
    /\ bg' = [t \in BgTasks |-> IF t \in Range(tasks) THEN "pending" ELSE bg[t]]
    /\ svcCalls' = svcCalls \o [k \in 1..Len(tasks) |-> BgCall(tasks[k])]

(* The method up to its first await. *)
SvcStart ==
    /\ svcPc = "start"
    /\ CASE svcOp = "signUp" -> Await("from(users).select", "su_cleanup")
         [] svcOp = "signIn" -> Await("auth.signInWithPassword", "si_signIn")
         [] svcOp = "handleOAuthSignIn" -> Await("from(users).select", "oa_profile")
         [] svcOp = "signOut" -> Await("auth.getUser", "so_getUser")
         [] svcOp = "resetPassword" -> Await("auth.resetPasswordForEmail", "rp_reset")
         [] svcOp = "updatePassword" -> Await("auth.updateUser", "up_update")
         [] svcOp = "changePassword" -> Await("auth.getUser", "cp_getUser")
    /\ UNCHANGED <<svcOp, svcReplies, bg, bgOrder>>
    /\ SvcFrame

(* ------------------------------- signIn -------------------------------- *)

(* signIn, lines 186-250: signInWithPassword has ended with o. *)
SiSignInReturn(o) ==
    /\ svcPc = "si_signIn"
    /\ svcReplies' = Append(svcReplies, Reply("auth.signInWithPassword", o))
    /\ IF o = "user"
       THEN /\ FireAndForget(<<"log", "lastLogin", "email">>)
            /\ Return("user", null)
       ELSE /\ FireAndForget(<<"log">>)
            /\ CASE o = "error" -> Return(null, "sdk")
                 [] o = "noUser" -> Return(null, null)
                 [] o = "throw" -> Return(null, "SignInError")
    /\ UNCHANGED <<svcOp, bgOrder>>
    /\ SvcFrame

(* Mutant of BgFinish: a failed background call reaches the caller as an error. *)
BgFinish_Propagates(t, r) ==
    /\ bg[t] = "pending"
    /\ bg' = [bg EXCEPT ![t] = r]
    /\ bgOrder' = Append(bgOrder, t)
    /\ svcResult' = IF r = "failed" THEN [value |-> null, error |-> "SignInError"]
                    ELSE svcResult
    /\ UNCHANGED <<svcOp, svcPc, svcCalls, svcReplies>>
    /\ SvcFrame

(* Lines 637-649, 661-673, 686-699: the call of a background task ends (r);
   a failure is caught inside the task. *)
BgFinish(t, r) ==
    /\ bg[t] = "pending"
    /\ bg' = [bg EXCEPT ![t] = r]
    /\ bgOrder' = Append(bgOrder, t)
    /\ UNCHANGED <<svcOp, svcPc, svcCalls, svcReplies, svcResult>>
    /\ SvcFrame

(* ------------------------------- signUp -------------------------------- *)

(* signUp, lines 85-109: cleanupOrphanedAuthUser has ended (it catches its
   own errors and its result is not used); auth.signUp is issued. *)
SuCleanupReturn(o) ==
    /\ svcPc = "su_cleanup"
    /\ svcReplies' = Append(svcReplies, Reply("from(users).select", o))
    /\ Await("auth.signUp", "su_signUp")
    /\ UNCHANGED <<svcOp, bg, bgOrder>>
    /\ SvcFrame

(* signUp, lines 109-134 and 172-179: auth.signUp has ended with o. *)
SuSignUpReturn(o) ==
    /\ svcPc = "su_signUp"
    /\ svcReplies' = Append(svcReplies, Reply("auth.signUp", o))
    /\ CASE o = "error" -> Return(null, "sdk") /\ UNCHANGED svcCalls
         [] o = "noUser" -> Return(null, null) /\ UNCHANGED svcCalls
         [] o = "throw" -> Return(null, "RegistrationError") /\ UNCHANGED svcCalls
         [] o = "user" -> Await("rpc:create_user_profile_secure", "su_rpc")
    /\ UNCHANGED <<svcOp, bg, bgOrder>>
    /\ SvcFrame

(* Mutant of SuRpcReturn: a failed profile creation is issued once more. *)
SuRpcReturn_Retry(o) ==
    /\ svcPc = "su_rpc"
    /\ svcReplies' = Append(svcReplies, Reply("rpc:create_user_profile_secure", o))
    /\ IF o = "success"
       THEN Return("user", null) /\ UNCHANGED svcCalls
       ELSE IF Len(svcReplies) < 3
       THEN Await("rpc:create_user_profile_secure", "su_rpc")
       ELSE Return(null, "ProfileCreationError") /\ UNCHANGED svcCalls
    /\ UNCHANGED <<svcOp, bg, bgOrder>>
    /\ SvcFrame

(* signUp, lines 134-171: rpc create_user_profile_secure has ended with o. *)
SuRpcReturn(o) ==
    /\ svcPc = "su_rpc"
    /\ svcReplies' = Append(svcReplies, Reply("rpc:create_user_profile_secure", o))
    /\ IF o = "success"
       THEN Return("user", null)
       ELSE Return(null, "ProfileCreationError")
    /\ UNCHANGED <<svcOp, svcCalls, bg, bgOrder>>
    /\ SvcFrame

(* -------------------------- handleOAuthSignIn --------------------------- *)

(* getUserProfile, lines 405-453: the profile, or null on error, no data or
   a thrown exception. *)
ProfileFound(o) == o = "found"

(* handleOAuthSignIn, lines 263-291: the first getUserProfile has ended. *)
OaProfileReturn(o) ==
    /\ svcPc = "oa_profile"
    /\ svcReplies' = Append(svcReplies, Reply("from(users).select", o))
    /\ IF ProfileFound(o)
       THEN Return("profile", null) /\ UNCHANGED svcCalls
       ELSE Await("rpc:create_user_profile_secure", "oa_rpc")
    /\ UNCHANGED <<svcOp, bg, bgOrder>>
    /\ SvcFrame

(* handleOAuthSignIn, lines 281-340: rpc create_user_profile_secure has ended. *)
OaRpcReturn(o) ==
    /\ svcPc = "oa_rpc"
    /\ svcReplies' = Append(svcReplies, Reply("rpc:create_user_profile_secure", o))
    /\ IF o = "success"
       THEN Await("from(users).select", "oa_refetch")
       ELSE Return(null, "ProfileCreationError") /\ UNCHANGED svcCalls
    /\ UNCHANGED <<svcOp, bg, bgOrder>>
    /\ SvcFrame

(* handleOAuthSignIn, lines 316-329: the second getUserProfile has ended. *)
OaRefetchReturn(o) ==
    /\ svcPc = "oa_refetch"
    /\ svcReplies' = Append(svcReplies, Reply("from(users).select", o))
    /\ IF ProfileFound(o)
       THEN Return("profile", null)
       ELSE Return(null, "ProfileRetrievalError")
    /\ UNCHANGED <<svcOp, svcCalls, bg, bgOrder>>
    /\ SvcFrame

(* ------------------------------- signOut ------------------------------- *)

(* signOut, lines 356-359 and 377-383: getUser has ended with o. *)
SoGetUserReturn(o) ==
    /\ svcPc = "so_getUser"
    /\ svcReplies' = Append(svcReplies, Reply("auth.getUser", o))
    /\ IF o = "throw"
       THEN Return(null, "SignOutError") /\ UNCHANGED svcCalls
       ELSE Await("auth.signOut", "so_signOut")
    /\ UNCHANGED <<svcOp, bg, bgOrder>>
    /\ SvcFrame

(* signOut, lines 359-383: auth.signOut has ended with o; with a user the
   logout event is logged in the background. *)
SoSignOutReturn(o) ==
    /\ svcPc = "so_signOut"
    /\ svcReplies' = Append(svcReplies, Reply("auth.signOut", o))
    /\ IF o = "throw"
       THEN /\ Return(null, "SignOutError")
            /\ UNCHANGED <<svcCalls, bg>>
       ELSE /\ IF svcReplies[1].outcome \in {"user", "userNoEmail"}
               THEN FireAndForget(<<"log">>)
               ELSE UNCHANGED <<svcCalls, bg>>
            /\ Return(null, IF o = "error" THEN "sdk" ELSE null)
    /\ UNCHANGED <<svcOp, bgOrder>>
    /\ SvcFrame

(* ---------------------- resetPassword, updatePassword ------------------- *)

(* resetPassword, lines 540-551: resetPasswordForEmail has ended with o. *)
RpResetReturn(o) ==
    /\ svcPc = "rp_reset"
    /\ svcReplies' = Append(svcReplies, Reply("auth.resetPasswordForEmail", o))
    /\ CASE o = "ok" -> Return(null, null)
         [] o = "error" -> Return(null, "sdk")
         [] o = "throw" -> Return(null, "PasswordResetError")
    /\ UNCHANGED <<svcOp, svcCalls, bg, bgOrder>>
    /\ SvcFrame

(* updatePassword, lines 556-565: updateUser has ended with o. *)
UpUpdateReturn(o) ==
    /\ svcPc = "up_update"
    /\ svcReplies' = Append(svcReplies, Reply("auth.updateUser", o))
    /\ CASE o = "ok" -> Return(null, null)
         [] o = "error" -> Return(null, "sdk")
         [] o = "throw" -> Return(null, "PasswordUpdateError")
    /\ UNCHANGED <<svcOp, svcCalls, bg, bgOrder>>
    /\ SvcFrame

(* ---------------------------- changePassword ---------------------------- *)

NoUserMsg == "No authenticated user found"
WrongPasswordMsg == "Current password is incorrect"
ChangeFailedMsg == "Failed to change password"

(* changePassword, lines 593-602 and 618-620: getUser has ended with o. *)
CpGetUserReturn(o) ==
    /\ svcPc = "cp_getUser"
    /\ svcReplies' = Append(svcReplies, Reply("auth.getUser", o))
    /\ CASE o = "throw" -> Return("false", ChangeFailedMsg) /\ UNCHANGED svcCalls
         [] o \in {"noUser", "userNoEmail"} -> Return("false", NoUserMsg) /\ UNCHANGED svcCalls
         [] o = "user" -> Await("auth.signInWithPassword", "cp_signIn")
    /\ UNCHANGED <<svcOp, bg, bgOrder>>
    /\ SvcFrame

(* Mutant of CpSignInReturn: the sign-in error is not checked. *)
CpSignInReturn_Unchecked(o) ==
    /\ svcPc = "cp_signIn"
    /\ svcReplies' = Append(svcReplies, Reply("auth.signInWithPassword", o))
    /\ IF o = "throw"
       THEN Return("false", ChangeFailedMsg) /\ UNCHANGED svcCalls
       ELSE Await("auth.updateUser", "cp_update")
    /\ UNCHANGED <<svcOp, bg, bgOrder>>
    /\ SvcFrame

(* changePassword, lines 599-611: signInWithPassword has ended with o; only
   its error is read. *)
CpSignInReturn(o) ==
    /\ svcPc = "cp_signIn"
    /\ svcReplies' = Append(svcReplies, Reply("auth.signInWithPassword", o))
    /\ CASE o = "throw" -> Return("false", ChangeFailedMsg) /\ UNCHANGED svcCalls
         [] o = "error" -> Return("false", WrongPasswordMsg) /\ UNCHANGED svcCalls
         [] o \in {"user", "noUser"} -> Await("auth.updateUser", "cp_update")
    /\ UNCHANGED <<svcOp, bg, bgOrder>>
    /\ SvcFrame

(* changePassword, lines 609-620: updateUser has ended with o. *)
CpUpdateReturn(o) ==
    /\ svcPc = "cp_update"
    /\ svcReplies' = Append(svcReplies, Reply("auth.updateUser", o))
    /\ CASE o = "throw" -> Return("false", ChangeFailedMsg)
         [] o = "error" -> Return("false", "sdk")
         [] o = "ok" -> Return("true", null)
    /\ UNCHANGED <<svcOp, svcCalls, bg, bgOrder>>
    /\ SvcFrame

SvcNext ==
    \/ SvcStart
    \/ \E o \in AuthUserOutcomes : SiSignInReturn(o)
    \/ \E t \in BgTasks, r \in BgOutcomes : BgFinish(t, r)
    \/ \E o \in SelectOutcomes : SuCleanupReturn(o)
    \/ \E o \in AuthUserOutcomes : SuSignUpReturn(o)
    \/ \E o \in RpcOutcomes : SuRpcReturn(o)
    \/ \E o \in SelectOutcomes : OaProfileReturn(o)
    \/ \E o \in RpcOutcomes : OaRpcReturn(o)
    \/ \E o \in SelectOutcomes : OaRefetchReturn(o)
    \/ \E o \in GetUserOutcomes : SoGetUserReturn(o)
    \/ \E o \in PlainOutcomes : SoSignOutReturn(o)
    \/ \E o \in PlainOutcomes : RpResetReturn(o)
    \/ \E o \in PlainOutcomes : UpUpdateReturn(o)
    \/ \E o \in GetUserOutcomes : CpGetUserReturn(o)
    \/ \E o \in AuthUserOutcomes : CpSignInReturn(o)
    \/ \E o \in PlainOutcomes : CpUpdateReturn(o)

SvcInit ==
    /\ svcOp \in Operations
    /\ svcPc = "start"
    /\ svcCalls = <<>>
    /\ svcReplies = <<>>
    /\ svcResult = NoResult
    /\ bg = [t \in BgTasks |-> "idle"]
    /\ bgOrder = <<>>

(* One invocation of one authService operation. *)
ServiceInit == SvcInit /\ CbIdle /\ StoreInit /\ isLoading = FALSE /\ PrIdle /\ GIdle
ServiceSpec == ServiceInit /\ [][SvcNext]_vars

(* The AuthCallback handler is not running. *)
CbParked ==
    /\ hash = [type |-> null, access_token |-> null, refresh_token |-> null,
               error_description |-> null]
    /\ pc = "not_running"
    /\ error = null
    /\ status = "Processing..."
    /\ callbackType = "unknown"
    /\ session = FALSE
    /\ sessionError = FALSE
    /\ timer = NoTimer
    /\ navs = <<>>
    /\ calls = <<>>
    /\ replies = <<>>
    /\ initAuth = "none"

(* One invocation of an authService operation, or one run of the
   AuthCallback handler. *)
InvocationInit ==
    /\ \/ SvcInit /\ CbParked
       \/ SvcIdle /\ CbInit
    /\ StoreInit /\ isLoading = FALSE /\ PrIdle /\ GIdle
InvocationNext == SvcNext \/ CbNext
InvocationSpec == InvocationInit /\ [][InvocationNext]_vars

(* --------------------------- authService: claims ------------------------ *)

SignInReturned == svcOp = "signIn" /\ svcPc = "returned"

(* What signIn returns for each way signInWithPassword can end. *)
SignInResultFor(o) ==
    CASE o = "user" -> [value |-> "user", error |-> null]
      [] o = "error" -> [value |-> null, error |-> "sdk"]
      [] o = "noUser" -> [value |-> null, error |-> null]
      [] o = "throw" -> [value |-> null, error |-> "SignInError"]

(* C11: once signIn has returned, its result is the one signInWithPassword's
   outcome determines, in every state of the background calls (pending,
   completed or failed, in any order); a successful sign-in leaves all three
   background calls issued, a failed one only the audit log. *)
C11_SignInFireAndForget ==
    SignInReturned =>
        /\ svcReplies = <<Reply("auth.signInWithPassword", svcReplies[1].outcome)>>
        /\ svcResult = SignInResultFor(svcReplies[1].outcome)
        /\ \A t \in BgTasks :
              (bg[t] # "idle") <=> (t = "log" \/ svcReplies[1].outcome = "user")

(* The result is back while the last-login update is still running, the
   welcome email (issued last) has completed first and the audit log has failed. *)
C11_Witness ==
    /\ SignInReturned
    /\ svcResult = [value |-> "user", error |-> null]
    /\ bg = [t \in BgTasks |-> CASE t = "log" -> "failed"
                                 [] t = "lastLogin" -> "pending"
                                 [] t = "email" -> "ok"]
    /\ bgOrder = <<"email", "log">>

StateChangingCalls ==
    {"auth.signUp", "auth.signInWithPassword", "auth.signOut", "auth.updateUser",
     "auth.resetPasswordForEmail", "rpc:create_user_profile_secure", "rpc:log_auth_event"}

Count(c, q) == Cardinality({i \in 1..Len(q) : q[i] = c})

(* C12: within one invocation of an authService operation, and within one
   run of the AuthCallback handler, each state-changing external call is
   issued at most once; in particular no call is issued again after it failed. *)
C12_NoRetry ==
    /\ \A c \in StateChangingCalls : Count(c, svcCalls) <= 1
    /\ Count("setSession", calls) <= 1

C12_Witness ==
    /\ svcOp = "signUp"
    /\ svcPc = "returned"
    /\ svcReplies[Len(svcReplies)] = Reply("rpc:create_user_profile_secure", "rpcError")
    /\ Count("rpc:create_user_profile_secure", svcCalls) = 1

ReplyAt(k, call, outcomes) ==
    /\ Len(svcReplies) >= k
    /\ svcReplies[k].call = call
    /\ svcReplies[k].outcome \in outcomes

(* C13: changePassword issues updateUser only after getUser returned a user
   with an email and signInWithPassword returned no error; without an
   authenticated user it returns 'No authenticated user found' and never
   signs in; with a failed sign-in it returns 'Current password is incorrect'
   and never updates; success is true only if updateUser returned no error. *)
C13_ChangePasswordOrder ==
    svcOp = "changePassword" =>
        /\ "auth.updateUser" \in Range(svcCalls) =>
              /\ ReplyAt(1, "auth.getUser", {"user"})
              /\ ReplyAt(2, "auth.signInWithPassword", {"user", "noUser"})
              /\ svcCalls = <<"auth.getUser", "auth.signInWithPassword", "auth.updateUser">>
        /\ (svcPc = "returned" /\ ReplyAt(1, "auth.getUser", {"noUser", "userNoEmail"})) =>
              /\ svcResult = [value |-> "false", error |-> NoUserMsg]
              /\ "auth.signInWithPassword" \notin Range(svcCalls)
        /\ (svcPc = "returned" /\ ReplyAt(2, "auth.signInWithPassword", {"error"})) =>
              /\ svcResult = [value |-> "false", error |-> WrongPasswordMsg]
              /\ "auth.updateUser" \notin Range(svcCalls)
        /\ svcResult.value = "true" =>
              /\ ReplyAt(3, "auth.updateUser", {"ok"})
              /\ svcResult.error = null

C13_Witness ==
    /\ svcOp = "changePassword"
    /\ svcPc = "returned"
    /\ svcResult = [value |-> "true", error |-> null]
    /\ ReplyAt(3, "auth.updateUser", {"ok"})

(* ---------------------- AuthCallback: further claims -------------------- *)

SetSessionReply(sess, err) ==
    [call |-> "setSession", session |-> sess, error |-> err, threw |-> FALSE]

(* The last reply is a getSession that resolved (did not throw). *)
GetSessionResolved ==
    /\ Len(replies) >= 1
    /\ replies[Len(replies)].call = "getSession"
    /\ ~replies[Len(replies)].threw

ExpiredLinkShown ==
    /\ error = ExpiredLinkMsg
    /\ \/ timer = [to |-> "/forgot-password", delay |-> ErrorRedirectDelay] /\ navs = <<>>
       \/ timer = NoTimer /\ navs = <<[to |-> "/forgot-password", replace |-> FALSE]>>

(* The recovery fallback, for the hashes H says it covers. *)
RecoveryFallback(H) ==
    (hash.type = "recovery" /\ H) =>
        /\ "setSession" \in Range(calls) => HasTokens
        /\ (Len(replies) >= 1 /\ replies[1] = SetSessionReply(FALSE, TRUE)) =>
              /\ ExpiredLinkShown
              /\ "getSession" \notin Range(calls)
        /\ (pc # "start" /\ (~HasTokens \/ (Len(replies) >= 1
                                            /\ replies[1] = SetSessionReply(FALSE, FALSE)))) =>
              "getSession" \in Range(calls)
        /\ (GetSessionResolved /\ replies[Len(replies)].session) =>
              /\ error = null /\ timer = NoTimer
              /\ navs = IF pc = "done" THEN <<Step3Nav>> ELSE <<>>
        /\ (GetSessionResolved /\ ~replies[Len(replies)].session) => ExpiredLinkShown

(* C14 as stated: for every hash with type=recovery, setSession is called
   only with both tokens; a setSession error shows the expired-link error and
   redirects to /forgot-password without getSession; with the tokens absent
   (or setSession giving neither error nor session) getSession is called, and
   the run navigates to /forgot-password?step=3 if it gives a session and
   shows the error and redirects to /forgot-password otherwise. *)
C14_AsStated == RecoveryFallback(TRUE)

(* C14 (amended): the same, for a hash with type=recovery and no
   error_description. *)
C14_RecoveryFallback == RecoveryFallback(~Truthy(hash.error_description))

C14_Witness ==
    /\ hash.type = "recovery" /\ ~Truthy(hash.error_description)
    /\ calls = <<"setSession", "getSession">>
    /\ Len(replies) = 2
    /\ replies[1] = SetSessionReply(FALSE, FALSE)
    /\ replies[2].session
    /\ pc = "done"
    /\ navs = <<Step3Nav>>

(* Every awaited call returns or throws, every pause ends and every timer fires. *)
FairCallbackSpec == CallbackInit /\ [][CbNext]_vars /\ WF_vars(CbNext)

NavigateTargets == {"/login", "/forgot-password", "/forgot-password?step=3", "/dashboard"}

(* C15: under that fairness a run eventually issues a navigate, never issues
   a second one, ends with nothing left pending, and its target is one of
   /login, /forgot-password, /forgot-password?step=3 and /dashboard. *)
C15_ExactlyOneNavigation ==
    /\ <>(Len(navs) = 1)
    /\ [](Len(navs) <= 1)
    /\ [](\A i \in 1..Len(navs) : navs[i].to \in NavigateTargets)
    /\ <>[](pc = "done" /\ timer = NoTimer /\ Len(navs) = 1)

C15_Witness ==
    /\ pc = "done"
    /\ timer = NoTimer
    /\ error = NoSessionMsg
    /\ navs = <<[to |-> "/login", replace |-> FALSE]>>
====
